---- MODULE Spec2Model ----
(***************************************************************************)
(* Model of thesis_streamlit_app.py: a Streamlit dashboard that loads a    *)
(* daily rainfall series (uploaded CSV or a cached synthetic sample),      *)
(* filters the records above a threshold, fits a GEV distribution to the   *)
(* annual maxima, computes a return level and classifies the flood risk.   *)
(*                                                                         *)
(* The script runs top to bottom on every interaction.  An uncaught        *)
(* exception stops the run at the raising line: what was rendered before   *)
(* it stays rendered, nothing after it is executed.                        *)
(*                                                                         *)
(* Rainfall amounts and return levels are fixed-point integers counted in  *)
(* 1/RiskDen mm, so that threshold * 0.75 is exact.  Logarithms are fixed- *)
(* point with FP units per 1.                                              *)
(***************************************************************************)
EXTENDS Integers, Sequences, FiniteSets, TLC

VARIABLES
    uploaded_file,   \* st.file_uploader's value: NoFile or the uploaded CSV
    sample_cache,    \* st.cache_data's entry for load_sample_data(): <<>> or <<data>>
    threshold,       \* value of the threshold slider (mm)
    return_period,   \* value of the return-period slider (years)
    out,             \* what the last script run computed and rendered
    fit_degenerate,  \* what gev.fit does on a sample with < 2 distinct values
    history,         \* what the first script run rendered; whether a later run happened
    probe            \* a call of one of the pure computations, with its result

vars == <<uploaded_file, sample_cache, threshold, return_period, out,
          fit_degenerate, history, probe>>

----------------------------------------------------------------------------
(* Program constants *)

ThresholdMin == 50
ThresholdMax == 200
ThresholdDefault == 100
ReturnPeriodMin == 2
ReturnPeriodMax == 100
ReturnPeriodDefault == 10
\* threshold * 0.75 = threshold * RiskNum / RiskDen
RiskNum == 3
RiskDen == 4
\* DataFrame.tail() shows the last 5 rows
TailRows == 5
\* load_sample_data: pd.date_range(start="2000-01-01", ...)
SampleStartYear == 2000

(* Bounds of the model *)

\* fixed-point units per 1 in the logarithms of the quantile function
FP == 10000
\* slider positions tried: the minimum, the default, the maximum, and the
\* values SliderReach away from them
SliderReach == 1
\* the synthetic sample spans SampleYears years
SampleYears == 2

----------------------------------------------------------------------------
(* Cells, rows and frames *)

Mm(v) == v * RiskDen

Num(v) == [kind |-> "num", v |-> v]
NaN == [kind |-> "nan", v |-> 0]
BadNum == [kind |-> "text", v |-> 0]

Date(y, d) == [kind |-> "date", y |-> y, d |-> d]
BadDate == [kind |-> "text", y |-> 0, d |-> 0]

Row(date, rain) == [Date |-> date, Rainfall_mm |-> rain]

NoFile == <<>>

Max(S) == CHOOSE x \in S : \A y \in S : y <= x
Min(S) == CHOOSE x \in S : \A y \in S : x <= y

Last(rows, n) ==
    IF Len(rows) <= n THEN rows ELSE SubSeq(rows, Len(rows) - n + 1, Len(rows))

RECURSIVE SeqSum(_)
SeqSum(q) == IF q = <<>> THEN 0 ELSE Head(q) + SeqSum(Tail(q))

----------------------------------------------------------------------------
(* Loading: lines 22-36 *)

\* pd.read_csv(uploaded_file, parse_dates=["Date"]): a column keeps its parsed
\* dtype only if every cell of it parses; otherwise the whole column stays
\* text (dtype object).  Empty amount cells are NaN in either case.
ReadCsv(file) ==
    [date_dtype |-> IF \A i \in 1..Len(file) : file[i].Date.kind = "date"
                    THEN "datetime64" ELSE "object",
     rain_dtype |-> IF \E i \in 1..Len(file) : file[i].Rainfall_mm.kind = "text"
                    THEN "object" ELSE "float64",
     rows |-> file]

\* faulty variant: load_sample_data without its cache, the body runs on every call
LoadSampleDataUncached(cache, generated) == generated

\* @st.cache_data load_sample_data(): the body runs (and draws `generated`
\* from np.random.gamma) only when the cache holds no entry.
LoadSampleData(cache, generated) ==
    IF cache = <<>> THEN generated ELSE cache[1]

CacheAfterLoad(cache, generated) ==
    IF cache = <<>> THEN <<generated>> ELSE cache

\* order of the Date column: datetimes chronologically; in a text column the
\* ISO dates keep that order and any other text sorts after the digits
DateLE(a, b) ==
    IF a.kind = "text" THEN b.kind = "text"
    ELSE IF b.kind = "text" THEN TRUE
    ELSE a.y < b.y \/ (a.y = b.y /\ a.d <= b.d)

RECURSIVE InsertRow(_, _)
InsertRow(row, sorted) ==
    IF sorted = <<>> THEN <<row>>
    ELSE IF DateLE(Head(sorted).Date, row.Date)
         THEN <<Head(sorted)>> \o InsertRow(row, Tail(sorted))
         ELSE <<row>> \o sorted

\* df.sort_values("Date"); set_index keeps the rows and their order
RECURSIVE SortValues(_)
SortValues(rows) ==
    IF rows = <<>> THEN <<>>
    ELSE InsertRow(rows[Len(rows)], SortValues(SubSeq(rows, 1, Len(rows) - 1)))

----------------------------------------------------------------------------
(* Peak over threshold: lines 43-48 *)

\* faulty variant: the filter keeps a record equal to the threshold
ExceedsOrEquals(rain, thr) == rain.kind = "num" /\ rain.v >= Mm(thr)

\* df["Rainfall_mm"] > threshold on a float column: NaN compares False
Exceeds(rain, thr) == rain.kind = "num" /\ rain.v > Mm(thr)

ExtremeEvents(rows, thr) ==
    LET Keep(r) == Exceeds(r.Rainfall_mm, thr) IN SelectSeq(rows, Keep)

----------------------------------------------------------------------------
(* Annual maxima: line 52 *)

YearValues(rows, y) ==
    {rows[i].Rainfall_mm.v : i \in {j \in 1..Len(rows) :
        rows[j].Date.y = y /\ rows[j].Rainfall_mm.kind = "num"}}

\* .resample("Y").max(): one bin per calendar year from the first to the last
\* year of the index; max() skips NaN and is NaN for a bin without values
ResampleMax(rows) ==
    IF rows = <<>> THEN <<>>
    ELSE LET y0 == rows[1].Date.y
             y1 == rows[Len(rows)].Date.y
         IN [k \in 1..(y1 - y0 + 1) |->
                LET vs == YearValues(rows, y0 + k - 1)
                IN [year |-> y0 + k - 1,
                    value |-> IF vs = {} THEN NaN ELSE Num(Max(vs))]]

\* faulty variant: empty bins filled with zero instead of dropped
FillNA(series) ==
    [k \in 1..Len(series) |->
        IF series[k].value.kind = "nan"
        THEN [series[k] EXCEPT !.value = Num(0)] ELSE series[k]]

DropNA(series) ==
    LET Keep(e) == e.value.kind # "nan" IN SelectSeq(series, Keep)

AnnualMax(rows) == DropNA(ResampleMax(rows))

----------------------------------------------------------------------------
(* GEV fit: line 53 *)

\* the shape is counted in halves, loc and scale in quarter millimetres
Params(c, loc, scale) == [shape |-> c, loc |-> loc, scale |-> scale]

Values(series) == [i \in 1..Len(series) |-> series[i].value.v]

Degenerate(series) == Cardinality({series[i].value.v : i \in 1..Len(series)}) < 2

\* gev.fit(annual_max) is scipy's numerical maximum-likelihood fit: a
\* deterministic function of the sample alone.  Its stand-in here keeps that
\* dependence: location from the sample mean, scale from the sample range,
\* and the shape +1/2 or -1/2 from the side of the sample's skew (the rule of
\* genextreme._fitstart).
GevFit(series) ==
    LET xs == Values(series)
        S  == {xs[i] : i \in 1..Len(xs)}
        n  == Len(xs)
        sum == SeqSum(xs)
    IN Params(IF n * (Min(S) + Max(S)) < 2 * sum THEN 1
              ELSE IF n * (Min(S) + Max(S)) > 2 * sum THEN -1 ELSE 0,
              sum \div n,
              Max(S) - Min(S))

\* On a sample with fewer than two distinct values the likelihood has no
\* maximum; when the optimiser returns anyway, it returns a point near its
\* start (fit_loc_scale falls back to loc 0 / scale 1 on a zero variance).
GevFitDegenerate(series) ==
    Params(0, IF series = <<>> THEN 0 ELSE series[1].value.v, 1)

----------------------------------------------------------------------------
(* Return level: line 69.  gev.ppf(q, c, loc, scale) = loc + scale * z(q),  *)
(* z = -log(-log q) for c = 0 and (1 - (-log q)^c) / c otherwise, for a     *)
(* scale > 0.                                                              *)

\* sum over j >= 1 of x^j / j, for 0 <= x <= FP/2
RECURSIVE SeriesSum(_, _, _)
SeriesSum(term, x, j) ==
    IF term = 0 THEN 0
    ELSE (term \div j) + SeriesSum((term * x) \div FP, x, j + 1)

Ln2 == SeriesSum(FP \div 2, FP \div 2, 1)

\* natural logarithm of v/FP, in FP units, for v >= 1
RECURSIVE Ln(_)
Ln(v) ==
    IF v > FP THEN Ln2 + Ln(v \div 2)
    ELSE IF 2 * v < FP THEN Ln(2 * v) - Ln2
    ELSE 0 - SeriesSum(FP - v, FP - v, 1)

\* integer square root, by Newton's iteration
RECURSIVE Newton(_, _)
Newton(n, x) ==
    LET y == (x + (n \div x)) \div 2
    IN IF y >= x THEN x ELSE Newton(n, y)

\* square root of v/FP, in FP units
Sqrt(v) == IF v = 0 THEN 0 ELSE Newton(v * FP, v * FP)

\* z(q) in FP units, for the probability q = num/den and the shape c/2
PpfStd(num, den, c) ==
    LET y == 0 - Ln((num * FP) \div den)
    IN IF c = 0 THEN 0 - Ln(y)
       ELSE IF c = 2 THEN FP - y
       ELSE IF c = 1 THEN 2 * (FP - Sqrt(y))
       ELSE IF c = -1 THEN 2 * ((FP * FP) \div Sqrt(y) - FP)
       ELSE (FP * FP) \div y - FP

Ppf(num, den, p) == p.loc + (p.scale * PpfStd(num, den, p.shape)) \div FP

\* faulty variant: the quantile taken at the exceedance probability 1/T
ReturnLevelExceedance(p, T) == Ppf(1, T, p)

\* gev.ppf(1 - 1/return_period, shape, loc, scale)
ReturnLevel(p, T) == Ppf(T - 1, T, p)

----------------------------------------------------------------------------
(* Flood risk: line 74 *)

\* faulty variant: a return level equal to the threshold counts as "High"
RiskLevelHighInclusive(rl, thr) ==
    IF rl >= Mm(thr) THEN "High"
    ELSE IF rl * RiskDen > Mm(thr) * RiskNum THEN "Moderate"
    ELSE "Low"

\* faulty variant: a return level equal to 0.75 * threshold counts as "Moderate"
RiskLevelModerateInclusive(rl, thr) ==
    IF rl > Mm(thr) THEN "High"
    ELSE IF rl * RiskDen >= Mm(thr) * RiskNum THEN "Moderate"
    ELSE "Low"

RiskLevel(rl, thr) ==
    IF rl > Mm(thr) THEN "High"
    ELSE IF rl * RiskDen > Mm(thr) * RiskNum THEN "Moderate"
    ELSE "Low"

----------------------------------------------------------------------------
(* Export: line 78 *)

\* DataFrame.to_csv(index=True): a header line, then one line per row with
\* the index (Date) first
ToCsv(rows) ==
    [header |-> <<"Date", "Rainfall_mm">>,
     lines |-> [i \in 1..Len(rows) |-> <<rows[i].Date, rows[i].Rainfall_mm>>]]

----------------------------------------------------------------------------
(* One run of the script, line by line.  `done` collects the steps that ran *)
(* and the elements that were rendered; `error` is the uncaught exception   *)
(* that stopped the run, if any.                                           *)

NewRun ==
    [error |-> "", done |-> {},
     date_dtype |-> "", rain_dtype |-> "", rows |-> <<>>,
     extreme_events |-> <<>>, n_events |-> 0, table |-> <<>>,
     annual_max |-> <<>>, params |-> Params(0, 0, 0),
     return_level |-> 0, risk_level |-> "",
     download |-> [header |-> <<>>, lines |-> <<>>]]

\* lines 29-36
LoadStage(s, file, cache, generated) ==
    LET df == IF file # NoFile THEN ReadCsv(file)
              ELSE [date_dtype |-> "datetime64", rain_dtype |-> "float64",
                    rows |-> LoadSampleData(cache, generated)]
    IN [s EXCEPT !.date_dtype = df.date_dtype,
                 !.rain_dtype = df.rain_dtype,
                 !.rows = SortValues(df.rows),
                 !.done = @ \cup (IF file = NoFile THEN {"info"} ELSE {}) \cup {"load"}]

\* line 40
LineChartStage(s) ==
    IF s.error # "" THEN s
    ELSE [s EXCEPT !.done = @ \cup {"line_chart"}]

\* lines 43-48; comparing a text column with the integer threshold raises
ThresholdStage(s, thr) ==
    IF s.error # "" THEN s
    ELSE IF s.rain_dtype = "object"
    THEN [s EXCEPT !.done = @ \cup {"threshold"}, !.error = "TypeError:44"]
    ELSE LET ee == ExtremeEvents(s.rows, thr)
         IN [s EXCEPT !.done = @ \cup {"threshold", "extreme_events"},
                      !.extreme_events = ee,
                      !.n_events = Len(ee),
                      !.table = Last(ee, TailRows)]

\* faulty variant: the fit is given the peaks over the threshold
FitSamplePOT(s) ==
    [i \in 1..Len(s.extreme_events) |->
        [year |-> s.extreme_events[i].Date.y,
         value |-> s.extreme_events[i].Rainfall_mm]]

\* the sample handed to gev.fit on line 53
FitSample(s) == s.annual_max

\* lines 52-64; resample raises on an index that is not a DatetimeIndex
FitStage(s, degenerate) ==
    IF s.error # "" THEN s
    ELSE IF s.date_dtype = "object"
    THEN [s EXCEPT !.error = "TypeError:52"]
    ELSE LET t == [s EXCEPT !.annual_max = AnnualMax(s.rows),
                            !.done = @ \cup {"annual_max", "gev.fit"}]
         IN IF ~Degenerate(FitSample(t))
            THEN [t EXCEPT !.params = GevFit(FitSample(t)),
                           !.done = @ \cup {"params", "pyplot"}]
            ELSE IF degenerate = "raises"
            THEN [t EXCEPT !.error = "Error:53"]
            ELSE [t EXCEPT !.params = GevFitDegenerate(FitSample(t)),
                           !.done = @ \cup {"params", "pyplot"}]

\* lines 68-70
ReturnLevelStage(s, T) ==
    IF s.error # "" THEN s
    ELSE [s EXCEPT !.return_level = ReturnLevel(s.params, T),
                   !.done = @ \cup {"return_period", "return_level"}]

\* lines 74-75
RiskStage(s, thr) ==
    IF s.error # "" THEN s
    ELSE [s EXCEPT !.risk_level = RiskLevel(s.return_level, thr),
                   !.done = @ \cup {"risk_level"}]

\* line 78
ExportStage(s) ==
    IF s.error # "" THEN s
    ELSE [s EXCEPT !.download = ToCsv(s.extreme_events),
                   !.done = @ \cup {"download"}]

RunScript(file, cache, generated, thr, T, degenerate) ==
    ExportStage(RiskStage(ReturnLevelStage(FitStage(ThresholdStage(
        LineChartStage(LoadStage(NewRun, file, cache, generated)),
        thr), degenerate), T), thr))

----------------------------------------------------------------------------
(* Inputs of the model *)

\* what np.random.gamma can produce: an amount per day of the sample range,
\* one day standing for the days of each year
SampleAmounts == {Mm(50), Mm(120)}

SampleDates == [i \in 1..SampleYears |-> Date(SampleStartYear + i - 1, 1)]

\* the draws are continuous: the annual maxima of a sample are never all equal
SampleDatasets ==
    {rows \in {[i \in 1..Len(SampleDates) |-> Row(SampleDates[i], Num(a[i]))] :
                  a \in [1..Len(SampleDates) -> SampleAmounts]} :
        ~Degenerate(AnnualMax(rows))}

\* uploaded files: well formed (unsorted, a gap year, a missing amount, an
\* amount equal to the default threshold), a single year, unparseable dates,
\* non-numeric amounts, and no amount at all
FileWellFormed ==
    << Row(Date(2002, 1), Num(Mm(150))), Row(Date(2000, 2), Num(Mm(100))),
       Row(Date(2000, 1), Num(Mm(101))), Row(Date(2002, 2), NaN),
       Row(Date(2003, 1), Num(Mm(60))) >>
FileSingleYear ==
    << Row(Date(2001, 1), Num(Mm(80))), Row(Date(2001, 2), Num(Mm(130))) >>
FileBadDates ==
    << Row(BadDate, Num(Mm(120))), Row(Date(2000, 1), Num(Mm(90))) >>
FileBadAmounts ==
    << Row(Date(2001, 1), Num(Mm(130))), Row(Date(2000, 1), BadNum) >>
FileNoValues ==
    << Row(Date(2000, 1), NaN), Row(Date(2001, 1), NaN) >>

Files == {FileWellFormed, FileSingleYear, FileBadDates, FileBadAmounts, FileNoValues}

Malformed(file) ==
    \E i \in 1..Len(file) :
        file[i].Date.kind = "text" \/ file[i].Rainfall_mm.kind = "text"

\* faulty variant: a slider whose range ends one past hi
SliderPositionsPastMax(lo, hi, default) ==
    {lo, lo + SliderReach, default - SliderReach, default, default + SliderReach,
     hi + 1 - SliderReach, hi + 1} \cap lo..(hi + 1)

\* st.slider(label, lo, hi, default): the values the user can set it to
SliderPositions(lo, hi, default) ==
    {lo, lo + SliderReach, default - SliderReach, default, default + SliderReach,
     hi - SliderReach, hi} \cap lo..hi

NoProbe == [fn |-> "none"]

----------------------------------------------------------------------------
(* The dashboard *)

\* A widget that a run did not reach is dropped with its state: the next run
\* that reaches it starts again from the default.
WidgetValue(run, widget, value, default) ==
    IF widget \in run.done THEN value ELSE default

\* One script run with the given widget values
Rerun(file, thr, T) ==
    \E generated \in IF file = NoFile THEN SampleDatasets ELSE {<<>>} :
        LET run == RunScript(file, sample_cache, generated, thr, T, fit_degenerate)
        IN /\ out' = run
           /\ uploaded_file' = file
           /\ threshold' = WidgetValue(run, "threshold", thr, ThresholdDefault)
           /\ return_period' = WidgetValue(run, "return_period", T, ReturnPeriodDefault)
           /\ sample_cache' = IF file = NoFile
                              THEN CacheAfterLoad(sample_cache, generated)
                              ELSE sample_cache
           /\ history' = [history EXCEPT !.reran = TRUE]
           /\ UNCHANGED <<fit_degenerate, probe>>

\* the first run: nothing uploaded, sliders at their defaults, cache empty
Init ==
    /\ uploaded_file = NoFile
    /\ threshold = ThresholdDefault
    /\ return_period = ReturnPeriodDefault
    /\ fit_degenerate \in {"raises", "returns"}
    /\ \E generated \in SampleDatasets :
          /\ sample_cache = CacheAfterLoad(<<>>, generated)
          /\ out = RunScript(NoFile, <<>>, generated, ThresholdDefault,
                             ReturnPeriodDefault, fit_degenerate)
    /\ history = [first |-> out, reran |-> FALSE]
    /\ probe = NoProbe

Upload(file) ==
    /\ file # uploaded_file
    /\ Rerun(file, threshold, return_period)

RemoveFile ==
    /\ uploaded_file # NoFile
    /\ Rerun(NoFile, threshold, return_period)

MoveThreshold(v) ==
    /\ "threshold" \in out.done
    /\ v # threshold
    /\ Rerun(uploaded_file, v, return_period)

MoveReturnPeriod(v) ==
    /\ "return_period" \in out.done
    /\ v # return_period
    /\ Rerun(uploaded_file, threshold, v)

Refresh == Rerun(uploaded_file, threshold, return_period)

Next ==
    \/ \E file \in Files : Upload(file)
    \/ RemoveFile
    \/ \E v \in SliderPositions(ThresholdMin, ThresholdMax, ThresholdDefault) :
          MoveThreshold(v)
    \/ \E v \in SliderPositions(ReturnPeriodMin, ReturnPeriodMax, ReturnPeriodDefault) :
          MoveReturnPeriod(v)
    \/ Refresh

Spec == Init /\ [][Next]_vars

----------------------------------------------------------------------------
(* The pure computations on their own: each specification below draws the  *)
(* arguments of one of them from a bounded set and applies it.             *)

DashboardIdle ==
    /\ uploaded_file = NoFile
    /\ sample_cache = <<>>
    /\ threshold = ThresholdDefault
    /\ return_period = ReturnPeriodDefault
    /\ out = NewRun
    /\ fit_degenerate = "raises"
    /\ history = [first |-> NewRun, reran |-> FALSE]

DashboardUnchanged ==
    UNCHANGED <<uploaded_file, sample_cache, threshold, return_period, out,
                fit_degenerate, history>>

(* risk_level, line 74 *)

\* return levels within RiskReach quarter-millimetres of the two boundaries
RiskReach == 1

RiskLevels(thr) ==
    {0} \cup {Mm(thr) + d : d \in (0 - RiskReach)..RiskReach}
        \cup {thr * RiskNum + d : d \in (0 - RiskReach)..RiskReach}

RiskCall(rl, thr) ==
    [fn |-> "risk_level", rl |-> rl, thr |-> thr, label |-> ""]

InitRisk ==
    /\ DashboardIdle
    /\ \E thr \in ThresholdMin..ThresholdMax : \E rl \in RiskLevels(thr) :
          probe = RiskCall(rl, thr)

Classify ==
    /\ probe.label = ""
    /\ probe' = [probe EXCEPT !.label = RiskLevel(probe.rl, probe.thr)]
    /\ DashboardUnchanged

SpecRisk == InitRisk /\ [][Classify]_vars

(* return_level, line 69 *)

FitShapes == {-2, -1, 0, 1, 2}
FitLocs == {0, Mm(80)}
FitScales == {1, Mm(10), Mm(40)}

ReturnLevelCall(p, T) ==
    [fn |-> "return_level", params |-> p, T |-> T, rl |-> ReturnLevel(p, T)]

InitReturnLevel ==
    /\ DashboardIdle
    /\ \E c \in FitShapes, loc \in FitLocs, scale \in FitScales :
          probe = ReturnLevelCall(Params(c, loc, scale), ReturnPeriodDefault)

\* the same fitted distribution queried at another return period
Query ==
    /\ \E T \in ReturnPeriodMin..ReturnPeriodMax :
          probe' = ReturnLevelCall(probe.params, T)
    /\ DashboardUnchanged

SpecReturnLevel == InitReturnLevel /\ [][Query]_vars

(* annual_max, lines 35-36 and 52 *)

\* longest series drawn
MaxRows == 3

SeriesDates == {Date(y, d) : y \in {2000, 2001, 2002}, d \in {1, 2}}
SeriesAmounts == {NaN, Num(Mm(40)), Num(Mm(90))}

SeriesCall(rows) ==
    [fn |-> "annual_max", rows |-> rows, result |-> AnnualMax(SortValues(rows))]

InitSeries ==
    /\ DashboardIdle
    /\ probe = SeriesCall(<<>>)

\* one more record in the file (in any position of the calendar), extraction redone
AddRecord ==
    /\ Len(probe.rows) < MaxRows
    /\ \E date \in SeriesDates, rain \in SeriesAmounts :
          probe' = SeriesCall(Append(probe.rows, Row(date, rain)))
    /\ DashboardUnchanged

SpecSeries == InitSeries /\ [][AddRecord]_vars

----------------------------------------------------------------------------
(* Properties *)

Labels == {"High", "Moderate", "Low"}

\* C1: the classifier returns exactly one label: "High" iff RL > T,
\* "Moderate" iff 0.75*T < RL <= T (so RL = T is "Moderate"), "Low" iff
\* RL <= 0.75*T.
C1_RiskPartition ==
    (probe.fn = "risk_level" /\ probe.label # "") =>
        /\ probe.label \in Labels
        /\ probe.label = "High" <=> probe.rl > Mm(probe.thr)
        /\ probe.label = "Moderate" <=>
              (probe.rl > probe.thr * RiskNum /\ probe.rl <= Mm(probe.thr))
        /\ probe.label = "Low" <=> probe.rl <= probe.thr * RiskNum

\* the return level is exactly the threshold and the label is "Moderate"
C1_Witness ==
    /\ probe.fn = "risk_level"
    /\ probe.rl = Mm(probe.thr)
    /\ probe.label = "Moderate"

\* C4 as stated: a return level of exactly 0.75 times the threshold is
\* classified "Moderate".
C4_LowerBoundInclusive ==
    (probe.fn = "risk_level" /\ probe.label # "" /\ probe.rl = probe.thr * RiskNum)
        => probe.label = "Moderate"

\* C4 as amended: a return level of exactly 0.75 times the threshold is
\* classified "Low"; the lower bound of the Moderate range is exclusive.
C4_LowerBoundExclusive ==
    (probe.fn = "risk_level" /\ probe.label # "" /\ probe.rl = probe.thr * RiskNum)
        => probe.label = "Low"

\* the return level is exactly 0.75 times the threshold and the label is "Low"
C4_Witness ==
    /\ probe.fn = "risk_level"
    /\ probe.rl = probe.thr * RiskNum
    /\ probe.label = "Low"

\* years with at least one record that carries an amount
ObservedYears(rows) ==
    {rows[i].Date.y : i \in {j \in 1..Len(rows) : rows[j].Rainfall_mm.kind = "num"}}

\* C2: the annual maxima hold exactly one entry per calendar year with at
\* least one observation, that entry is the maximum of that year's amounts,
\* and a year without data (a gap year included) has no entry at all.
C2_AnnualMaxima ==
    probe.fn = "annual_max" =>
        LET rows == probe.rows
            res == probe.result
        IN /\ \A y \in ObservedYears(rows) :
                 /\ Cardinality({k \in 1..Len(res) : res[k].year = y}) = 1
                 /\ \A k \in 1..Len(res) : res[k].year = y =>
                       /\ res[k].value.kind = "num"
                       /\ \E i \in 1..Len(rows) :
                             /\ rows[i].Date.y = y
                             /\ rows[i].Rainfall_mm = res[k].value
                       /\ \A i \in 1..Len(rows) :
                             (rows[i].Date.y = y /\ rows[i].Rainfall_mm.kind = "num")
                                => rows[i].Rainfall_mm.v <= res[k].value.v
           /\ \A k \in 1..Len(res) : res[k].year \in ObservedYears(rows)

\* observations in 2000 and 2002, none in 2001: two entries, none for 2001
C2_Witness ==
    /\ probe.fn = "annual_max"
    /\ ObservedYears(probe.rows) = {2000, 2002}
    /\ Len(probe.rows) = MaxRows
    /\ Len(probe.result) = 2

\* C3: for a fixed fitted distribution the return level is non-decreasing in
\* the return period.
C3_Monotone ==
    [][(probe.fn = "return_level" /\ probe'.T >= probe.T)
          => probe'.rl >= probe.rl]_vars

\* a query at the longest return period gave a strictly higher level than the
\* level of the shortest one
C3_Witness ==
    /\ probe.fn = "return_level"
    /\ probe.T = ReturnPeriodMax
    /\ probe.rl > ReturnLevel(probe.params, ReturnPeriodMin)

\* C5: the threshold starts at 100 and stays an integer in 50..200, the
\* return period starts at 10 and stays an integer in 2..100; hence T > 1 and
\* 1 - 1/T lies in [1/2, 99/100].
C5_SliderRanges ==
    /\ threshold = 100 /\ return_period = 10
    /\ [](/\ threshold \in 50..200
          /\ return_period \in 2..100
          /\ return_period > 1
          /\ 2 * (return_period - 1) >= return_period
          /\ 100 * (return_period - 1) <= 99 * return_period)

\* both sliders have been moved to an end of their range and the run went through
C5_Witness ==
    /\ threshold = 200
    /\ return_period = 2
    /\ "return_level" \in out.done

\* the series the run was given
InputRows ==
    IF uploaded_file # NoFile THEN uploaded_file ELSE sample_cache[1]

Count(rows, r) == Cardinality({i \in 1..Len(rows) : rows[i] = r})

\* C6: the records offered for download are exactly the input records whose
\* amount strictly exceeds the threshold, each with its timestamp, in
\* ascending timestamp order, and the reported count is their number.
C6_ExtremeEventsExport ==
    /\ "extreme_events" \in out.done =>
          out.n_events = Cardinality({i \in 1..Len(InputRows) :
                /\ InputRows[i].Rainfall_mm.kind = "num"
                /\ InputRows[i].Rainfall_mm.v > Mm(threshold)})
    /\ "download" \in out.done =>
          LET lines == out.download.lines
              AsRow(l) == Row(l[1], l[2])
              exported == [i \in 1..Len(lines) |-> AsRow(lines[i])]
          IN /\ out.download.header = <<"Date", "Rainfall_mm">>
             /\ \A i \in 1..Len(lines) :
                   /\ lines[i][1].kind = "date"
                   /\ lines[i][2].kind = "num"
                   /\ lines[i][2].v > Mm(threshold)
             /\ \A i \in 1..Len(InputRows) :
                   LET r == InputRows[i]
                   IN IF r.Rainfall_mm.kind = "num" /\ r.Rainfall_mm.v > Mm(threshold)
                      THEN Count(exported, r) = Count(InputRows, r)
                      ELSE Count(exported, r) = 0
             /\ \A i, j \in 1..Len(lines) :
                   i < j => DateLE(lines[i][1], lines[j][1])
             /\ out.n_events = Len(lines)

\* an unsorted upload holding a record equal to the threshold: the export
\* leaves that record out and lists the two higher ones in date order
C6_Witness ==
    /\ uploaded_file = FileWellFormed
    /\ threshold = 100
    /\ "download" \in out.done
    /\ out.n_events = 2
    /\ out.download.lines[1][1] = Date(2000, 1)

\* C7: a run with the same input (the same upload, or none) and the same
\* threshold and return period renders the same outputs as before: as the
\* run directly before it, and as the first run of the session.
C7_Idempotent ==
    /\ [][(/\ uploaded_file' = uploaded_file
           /\ threshold' = threshold
           /\ return_period' = return_period) => out' = out]_vars
    /\ []((/\ uploaded_file = NoFile
           /\ threshold = ThresholdDefault
           /\ return_period = ReturnPeriodDefault) => out = history.first)

\* a later run on the default dataset with the default parameters
C7_Witness ==
    /\ history.reran
    /\ uploaded_file = NoFile
    /\ threshold = ThresholdDefault
    /\ return_period = ReturnPeriodDefault
    /\ "download" \in out.done
    /\ out = history.first

\* C8 as stated: with fewer than 2 annual maxima the fit is not attempted, a
\* validation error is raised instead, and no return level or risk label is
\* produced.
C8_GuardedFit ==
    ("annual_max" \in out.done /\ Len(out.annual_max) < 2) =>
        /\ "gev.fit" \notin out.done
        /\ out.error # ""
        /\ "return_level" \notin out.done
        /\ "risk_level" \notin out.done

\* C9 as stated: on a malformed upload the run is aborted with an error and
\* no later step runs: no chart, table, return level, risk label or export.
C9_AbortOnMalformed ==
    (uploaded_file # NoFile /\ Malformed(uploaded_file)) =>
        /\ out.error # ""
        /\ out.done \cap {"line_chart", "extreme_events", "return_level",
                          "risk_level", "download"} = {}

\* C10: a run that differs from the one before only in the threshold leaves
\* the annual maxima, the fitted parameters and the return level as they were.
C10_ThresholdFrame ==
    [][(/\ uploaded_file' = uploaded_file
        /\ return_period' = return_period
        /\ threshold' # threshold)
          => /\ out'.annual_max = out.annual_max
             /\ out'.params = out.params
             /\ out'.return_level = out.return_level
             /\ ("return_level" \in out'.done) = ("return_level" \in out.done)]_vars

\* the threshold was lowered and the run found extreme events and a risk label
C10_Witness ==
    /\ history.reran
    /\ threshold = ThresholdMin
    /\ out.n_events > 0
    /\ "params" \in out.done
    /\ "risk_level" \in out.done

====
